---------------------------- MODULE Spec2Model ----------------------------
(***************************************************************************)
(* Model of the Wavefront OBJ / MTL loader of src/loader.go.               *)
(*                                                                         *)
(* Text is a sequence of one-character strings, so that splitting,         *)
(* trimming, scanning and formatting are computed as the Go code computes  *)
(* them.  A float32 value is held as an integer number of tenths (the      *)
(* numeric fields of the model carry at most one fractional digit);        *)
(* products are exact for the integer-valued geometry of the model.        *)
(* A Go runtime panic is an outcome of the decode like a returned error:   *)
(* the status names it.                                                    *)
(***************************************************************************)
EXTENDS Integers, Sequences, FiniteSets, TLC

VARIABLES
    \* ---- LoadObj: arguments and locals (loader.go 231-248)
    options,          \* options.NeedNormals
    meshes,           \* *meshes : bucket identifier -> Mesh
    materials,        \* *materials : material name -> Material
    positions,        \* []Vec3
    normals,          \* []Vec3
    uvs,              \* []Vec2
    lineCounter,
    facesCounter,
    currentMaterial,
    nsMap,            \* _nsMap: unsupported keywords already reported
    diagnostics,      \* what fmt.Println has written, in order
    status,           \* "running", "ok" (nil returned) or the failure
    \* ---- LoadMtl run on its own (loader.go 118-226)
    m,                \* the *Material being filled: its key in materials, or Nil
    mtlStatus,
    mtlLines,         \* the records LoadMtl has read so far
    \* ---- getFaceType applied to a token on its own (loader.go 39-58)
    p,                \* the token
    faceType,         \* << >>, then << what getFaceType returned >>
    \* ---- LoadObj invoked a second time on the same input
    run,              \* 0: single invocation; 1, 2: first and second of two
    input,            \* the records the first invocation read
    cursor,           \* records of input the second invocation has read
    first,            \* what the first invocation handed back
    given             \* the maps the caller passed to the second invocation

vars == << options, meshes, materials, positions, normals, uvs, lineCounter,
           facesCounter, currentMaterial, nsMap, diagnostics, status,
           m, mtlStatus, mtlLines, p, faceType, run, input, cursor, first, given >>

objVars == << options, meshes, materials, positions, normals, uvs, lineCounter,
              facesCounter, currentMaterial, nsMap, diagnostics, status >>
mtlVars == << m, mtlStatus, mtlLines >>
clsVars == << p, faceType >>
runVars == << run, input, cursor, first, given >>

-----------------------------------------------------------------------------
(* Bounds *)

\* records one LoadObj invocation reads
MaxLines == 4
\* records LoadMtl reads when run on its own
MaxMtlLines == 3
\* length of the tokens getFaceType is applied to
MaxTokLen == 6
\* records of the input that is decoded twice
MaxRerunLines == 3

-----------------------------------------------------------------------------
(* Outcomes *)

Nil == "nil"
Running == "running"
Ok == "ok"
\* returned errors
MalformedRecord == "INVALID FORMAT: wrong number of elements"
MalformedNumber == "strconv: invalid syntax"
FaceTooShort == "INVALID FORMAT: Faces cannot have length less than 3"
UnsupportedFacePolygon == "NOT SUPPORTED: Only Supports faces with length 3"
UndefinedFaceFormat == "INVALID FORMAT: Undefined face format"
InconsistentFaceFormat == "INVALID FORMAT: Faces cannot have inconsistent format"
IOFailure == "open: no such file or directory"
\* runtime panics
IndexOutOfRange == "panic: index out of range"
SliceBoundsOutOfRange == "panic: slice bounds out of range"
NoActiveMaterial == "panic: nil pointer dereference"

Failures == { MalformedRecord, MalformedNumber, FaceTooShort, UnsupportedFacePolygon,
              UndefinedFaceFormat, InconsistentFaceFormat, IOFailure,
              IndexOutOfRange, SliceBoundsOutOfRange, NoActiveMaterial }

-----------------------------------------------------------------------------
(* Text *)

Digits == << "0", "1", "2", "3", "4", "5", "6", "7", "8", "9" >>

IsDigit(c) == \E i \in 1..Len(Digits) : Digits[i] = c

DigitVal(c) == (CHOOSE i \in 1..Len(Digits) : Digits[i] = c) - 1

\* the longest prefix of s made of digits
RECURSIVE DigitPrefix(_)
DigitPrefix(s) ==
    IF s # << >> /\ IsDigit(Head(s)) THEN << Head(s) >> \o DigitPrefix(Tail(s)) ELSE << >>

\* the value of a sequence of digits
RECURSIVE DecVal(_)
DecVal(ds) ==
    IF ds = << >> THEN 0 ELSE 10 * DecVal(SubSeq(ds, 1, Len(ds) - 1)) + DigitVal(ds[Len(ds)])

\* strconv.Itoa, as fmt's %d prints a non-negative int
RECURSIVE Itoa(_)
Itoa(n) == IF n < 10 THEN << Digits[n + 1] >> ELSE Itoa(n \div 10) \o << Digits[(n % 10) + 1] >>

\* strings.Split(s, sep) for a one-character separator
RECURSIVE Split(_, _)
Split(s, sep) ==
    IF \E i \in 1..Len(s) : s[i] = sep
    THEN LET i == CHOOSE k \in 1..Len(s) : s[k] = sep /\ \A j \in 1..(k - 1) : s[j] # sep
         IN  << SubSeq(s, 1, i - 1) >> \o Split(SubSeq(s, i + 1, Len(s)), sep)
    ELSE << s >>

RECURSIVE TrimLeft(_, _)
TrimLeft(s, c) == IF s # << >> /\ Head(s) = c THEN TrimLeft(Tail(s), c) ELSE s

RECURSIVE TrimRight(_, _)
TrimRight(s, c) ==
    IF s # << >> /\ s[Len(s)] = c THEN TrimRight(SubSeq(s, 1, Len(s) - 1), c) ELSE s

\* strings.Trim(s, c) for a one-character cutset
Trim(s, c) == TrimRight(TrimLeft(s, c), c)

\* an optional sign and the text after it
SignOf(s) == IF s # << >> /\ Head(s) = "-" THEN -1 ELSE 1
Unsigned(s) == IF s # << >> /\ Head(s) \in { "+", "-" } THEN Tail(s) ELSE s

\* strconv.Atoi: an optional sign, then digits and nothing else
Atoi(s) ==
    LET u == Unsigned(s)
    IN  IF u # << >> /\ DigitPrefix(u) = u
        THEN [ ok |-> TRUE, val |-> SignOf(s) * DecVal(u) ]
        ELSE [ ok |-> FALSE, val |-> 0 ]

\* strconv.ParseFloat(s, 32) on decimal text without exponent: an optional
\* sign, digits, optionally a point and digits, at least one digit in all.
\* The value is in tenths; the model's fields have at most one fractional digit.
ParseFloat(s) ==
    LET u     == Unsigned(s)
        whole == DigitPrefix(u)
        rest  == SubSeq(u, Len(whole) + 1, Len(u))
        frac  == IF rest # << >> /\ Head(rest) = "." THEN Tail(rest) ELSE << >>
        wellFormed ==
            /\ rest = << >> \/ Head(rest) = "."
            /\ DigitPrefix(frac) = frac
            /\ Len(frac) <= 1
            /\ Len(whole) + Len(frac) >= 1
    IN  IF wellFormed
        THEN [ ok |-> TRUE, val |-> SignOf(s) * (10 * DecVal(whole) + DecVal(frac)) ]
        ELSE [ ok |-> FALSE, val |-> 0 ]

\* sliceToFloat32: every field parsed, in order; the first bad field fails it
sliceToFloat32(parts) ==
    IF \A i \in 1..Len(parts) : ParseFloat(parts[i]).ok
    THEN [ ok |-> TRUE, val |-> [ i \in 1..Len(parts) |-> ParseFloat(parts[i]).val ] ]
    ELSE [ ok |-> FALSE, val |-> << >> ]

\* one %d of fmt.Fscanf: an optional sign and at least one digit; what follows
\* the digits is left unread
ScanInt(s) ==
    LET u  == Unsigned(s)
        ds == DigitPrefix(u)
    IN  IF ds # << >>
        THEN [ ok |-> TRUE, val |-> SignOf(s) * DecVal(ds),
               rest |-> SubSeq(u, Len(ds) + 1, Len(u)) ]
        ELSE [ ok |-> FALSE, val |-> 0, rest |-> s ]

\* the %d verbs of a format, each left at its zero value
RECURSIVE Zeros(_)
Zeros(format) ==
    IF format = << >> THEN << >>
    ELSE (IF Head(format) = "%d" THEN << 0 >> ELSE << >>) \o Zeros(Tail(format))

\* fmt.Fscanf(reader, format, &a, ...): the values of a, ... afterwards.  A
\* format is a sequence of "%d" verbs and literal characters; scanning stops at
\* the first mismatch and leaves the remaining variables at zero.
RECURSIVE Fscanf(_, _)
Fscanf(format, s) ==
    IF format = << >> THEN << >>
    ELSE IF Head(format) = "%d"
         THEN LET r == ScanInt(s)
              IN  IF r.ok THEN << r.val >> \o Fscanf(Tail(format), r.rest)
                  ELSE Zeros(format)
         ELSE IF s # << >> /\ Head(s) = Head(format)
              THEN Fscanf(Tail(format), Tail(s))
              ELSE Zeros(format)

-----------------------------------------------------------------------------
(* Face tokens (loader.go 39-83) *)

getFaceType(tok) ==
    LET v == Split(tok, "/")
    IN  IF Len(v) = 0 THEN -1
        ELSE IF Len(v) = 1 THEN 0
        ELSE IF Len(v) = 2 THEN 1
        ELSE IF Len(v) = 3 THEN (IF v[2] # << >> THEN 2 ELSE 3)
        ELSE -1

getFaceData(tok, vtype) ==
    CASE vtype = 0 -> Fscanf(<< "%d" >>, tok)
      [] vtype = 1 -> Fscanf(<< "%d", "/", "%d" >>, tok)
      [] vtype = 2 -> Fscanf(<< "%d", "/", "%d", "/", "%d" >>, tok)
      [] vtype = 3 -> Fscanf(<< "%d", "/", "/", "%d" >>, tok)
      [] OTHER -> << >>

-----------------------------------------------------------------------------
(* Records *)

\* A record is what strings.Fields makes of a line: << >> for a blank line,
\* otherwise << key, field, ... >> with every field a text.
KeyOf(rec) == Head(rec)
PartsOf(rec) == Tail(rec)

T0 == << "0" >>
T1 == << "1" >>
TX == << "x" >>
MatA == << "a" >>
MatB == << "b" >>
Wood == << "w", "o", "o", "d" >>
Default == << "d", "e", "f", "a", "u", "l", "t" >>

-----------------------------------------------------------------------------
(* LoadMtl (loader.go 104-226) *)

Vec3Zero == << 0, 0, 0 >>

\* &Material{Name: name}
NewMaterial(name) ==
    [ Name |-> name, Ns |-> 0, Ni |-> 0, D |-> 0, Illum |-> 0,
      Ka |-> Vec3Zero, Kd |-> Vec3Zero, Ks |-> Vec3Zero, Ke |-> Vec3Zero, Ki |-> Vec3Zero ]

ScalarKeys == { "Ns", "Ni", "d", "illum" }
VectorKeys == { "Ka", "Kd", "Ke", "Ki", "Ks" }

\* the Material field a keyword assigns
FieldOf(key) ==
    CASE key = "Ns" -> "Ns" [] key = "Ni" -> "Ni" [] key = "d" -> "D"
      [] key = "illum" -> "Illum" [] key = "Ka" -> "Ka" [] key = "Kd" -> "Kd"
      [] key = "Ke" -> "Ke" [] key = "Ki" -> "Ki" [] key = "Ks" -> "Ks"

\* map[k] = v
Put(map, k, v) == [ x \in DOMAIN map \cup { k } |-> IF x = k THEN v ELSE map[x] ]

\* a mutation of MtlFail: the record being filled is taken out of the map when
\* LoadMtl fails
MtlFailDroppingCurrent(st, kind) ==
    [ st EXCEPT !.status = kind,
                !.materials = [ n \in DOMAIN st.materials \ { st.m } |-> st.materials[n] ] ]

\* a return of err, or a panic, in LoadMtl
MtlFail(st, kind) == [ st EXCEPT !.status = kind ]

\* a mutation of MtlAssign: an assignment through a nil m is skipped
MtlAssignSkippingNil(st, field, v) ==
    IF st.m = Nil THEN st
    ELSE [ st EXCEPT !.materials[st.m][field] = v ]

\* m.<field> = v, through the pointer m; a nil m panics
MtlAssign(st, field, v) ==
    IF st.m = Nil THEN MtlFail(st, NoActiveMaterial)
    ELSE [ st EXCEPT !.materials[st.m][field] = v ]

\* the smallest number of trailing fields a scalar / vector record is read with
ScalarArityOk(parts) == ~(Len(parts) < 1)
VectorArityOk(parts) == ~(Len(parts) < 3)

\* a mutation of MtlNewmtl: a name already in the map keeps its record
MtlNewmtlKeepingFirst(st, parts) ==
    IF Len(parts) = 0 THEN MtlFail(st, IndexOutOfRange)
    ELSE [ st EXCEPT !.m = parts[1],
                     !.materials = IF parts[1] \in DOMAIN st.materials THEN st.materials
                                   ELSE Put(st.materials, parts[1], NewMaterial(parts[1])) ]

\* case "newmtl" (135-137)
MtlNewmtl(st, parts) ==
    IF Len(parts) = 0 THEN MtlFail(st, IndexOutOfRange)
    ELSE [ st EXCEPT !.m = parts[1],
                     !.materials = Put(st.materials, parts[1], NewMaterial(parts[1])) ]

\* the parsed number num stored, or its parse error returned
MtlStoreScalar(st, field, num) ==
    IF ~num.ok THEN MtlFail(st, MalformedNumber) ELSE MtlAssign(st, field, num.val)

\* case "Ns", "Ni", "d", "illum" (138-173)
MtlScalar(st, key, parts) ==
    IF ~ScalarArityOk(parts) THEN MtlFail(st, MalformedRecord)
    ELSE MtlStoreScalar(st, FieldOf(key),
                        IF key = "illum" THEN Atoi(parts[1]) ELSE ParseFloat(parts[1]))

\* Vec3{nums[0], nums[1], nums[2]} stored, or the parse error returned
MtlStoreVector(st, field, nums) ==
    IF ~nums.ok THEN MtlFail(st, MalformedNumber)
    ELSE MtlAssign(st, field, << nums.val[1], nums.val[2], nums.val[3] >>)

\* case "Ka", "Kd", "Ke", "Ki", "Ks" (174-221)
MtlVector(st, key, parts) ==
    IF ~VectorArityOk(parts) THEN MtlFail(st, MalformedRecord)
    ELSE MtlStoreVector(st, FieldOf(key), sliceToFloat32(parts))

\* one turn of the scanner loop (126-224) on the state st = [m, materials, status]
MtlLine(st, rec) ==
    IF Len(rec) = 0 THEN st
    ELSE CASE KeyOf(rec) = "newmtl" -> MtlNewmtl(st, PartsOf(rec))
           [] KeyOf(rec) \in ScalarKeys -> MtlScalar(st, KeyOf(rec), PartsOf(rec))
           [] KeyOf(rec) \in VectorKeys -> MtlVector(st, KeyOf(rec), PartsOf(rec))
           [] OTHER -> st

\* the scanner loop over a whole file
RECURSIVE MtlScan(_, _)
MtlScan(st, lines) ==
    IF lines = << >> \/ st.status # Running THEN st
    ELSE MtlScan(MtlLine(st, Head(lines)), Tail(lines))

\* The material libraries on disk: path -> records.  Any other path does not open.
LibA == << "a", ".", "m", "t", "l" >>
LibBad == << "b", "a", "d", ".", "m", "t", "l" >>
LibMissing == << "n", "o", "n", "e", ".", "m", "t", "l" >>

FileSystem ==
    ( LibA :> << << "newmtl", MatA >>,
                 << "Kd", << "0", ".", "5" >>, << "0", ".", "3" >>, << "0", ".", "1" >> >> >> )
    @@
    ( LibBad :> << << "newmtl", MatB >>,
                   << "Ns", T1 >>,
                   << "Kd", T1, T0 >> >> )

\* what LoadMtl hands back when the loop ends in st: the map and the error
MtlReturned(st) ==
    [ materials |-> st.materials, err |-> IF st.status = Running THEN Nil ELSE st.status ]

\* LoadMtl(filePath, materials): the map afterwards and the error returned
LoadMtl(filePath, mats) ==
    IF filePath \notin DOMAIN FileSystem
    THEN [ materials |-> mats, err |-> IOFailure ]
    ELSE MtlReturned(MtlScan([ m |-> Nil, materials |-> mats, status |-> Running ],
                             FileSystem[filePath]))

-----------------------------------------------------------------------------
(* LoadObj: face records (loader.go 298-409) *)

\* arr[k] of the Go code, k counted from 0
Elem(arr, k) == arr[k + 1]

\* whether arr[k] is an access within the slice
InBounds(arr, k) == 0 <= k /\ k < Len(arr)

\* strings.Trim(p, "/") of every token
Trimmed(parts) == [ i \in 1..Len(parts) |-> Trim(parts[i], "/") ]

\* a mutation of FaceCheckTokens: the tokens are not compared with the first
FaceCheckTokensFirstOnly(toks, vtype) ==
    IF Len(toks) < 3 THEN FaceTooShort
    ELSE IF Len(toks) # 3 THEN UnsupportedFacePolygon
    ELSE IF vtype = -1 THEN UndefinedFaceFormat
    ELSE Running

\* the checks of 305-323 on the trimmed tokens, vtype being that of the first
FaceCheckTokens(toks, vtype) ==
    IF Len(toks) < 3 THEN FaceTooShort
    ELSE IF Len(toks) # 3 THEN UnsupportedFacePolygon
    ELSE IF vtype = -1 THEN UndefinedFaceFormat
    ELSE IF \E i \in 1..Len(toks) : vtype # getFaceType(toks[i])
         THEN InconsistentFaceFormat
    ELSE Running

\* The error checking of a face record (304-327): the failure it ends in, or
\* Running when the record goes on to index resolution.
FaceCheck(parts) ==
    IF Len(parts) = 0 THEN IndexOutOfRange
    ELSE FaceCheckTokens(Trimmed(parts), getFaceType(Trim(parts[1], "/")))

\* vtype of a record that passed the checks (304)
FaceVtype(parts) == getFaceType(Trim(parts[1], "/"))

\* faces: the index references of every token (315-323)
FaceRefs(parts, vtype) ==
    [ i \in 1..Len(parts) |-> getFaceData(Trim(parts[i], "/"), vtype) ]

\* nIdx and uvIdx (330-339)
NIdx(vtype) == IF vtype = 2 THEN 2 ELSE IF vtype = 3 THEN 1 ELSE -1
UvIdx(vtype) == IF vtype = 2 \/ vtype = 1 THEN 1 ELSE -1

\* whether every array access of the index resolution (346-372) is in bounds
FaceResolves(vtype, faces, pos, nrm, uv) ==
    /\ \A i \in 1..3 : InBounds(pos, Elem(faces[i], 0) - 1)
    /\ NIdx(vtype) # -1 =>
           \A i \in 1..3 : InBounds(nrm, Elem(faces[i], NIdx(vtype)) - 1)
    /\ UvIdx(vtype) # -1 =>
           \A i \in 1..3 : InBounds(uv, Elem(faces[i], UvIdx(vtype)) - 1)

\* float32 product of two values held in tenths
Mul(a, b) == (a * b) \div 10

\* the cross product of u and v (358-362)
Cross(u, v) ==
    << Mul(u[2], v[3]) - Mul(u[3], v[2]),
       Mul(u[3], v[1]) - Mul(u[1], v[3]),
       Mul(u[1], v[2]) - Mul(u[2], v[1]) >>

\* a mutation of FlatNormal: the edges are taken in the other order
FlatNormalReversed(va, vb, vc) ==
    Cross(<< vc[1] - va[1], vc[2] - va[2], vc[3] - va[3] >>,
          << vb[1] - va[1], vb[2] - va[2], vb[3] - va[3] >>)

\* the flat normal (356-362)
FlatNormal(va, vb, vc) ==
    Cross(<< vb[1] - va[1], vb[2] - va[2], vb[3] - va[3] >>,
          << vc[1] - va[1], vc[2] - va[2], vc[3] - va[3] >>)

\* a mutation of FacePosition: every vertex takes the position of the first token
FacePositionOfFirst(faces, pos, i) == Elem(pos, Elem(faces[1], 0) - 1)

\* the position, normal and uv the i-th token resolves to (346-373); a value
\* that is not looked up keeps the zero value of its declaration
FacePosition(faces, pos, i) == Elem(pos, Elem(faces[i], 0) - 1)

FaceNormal(vtype, faces, pos, nrm, needNormals, i) ==
    IF NIdx(vtype) # -1
    THEN Elem(nrm, Elem(faces[i], NIdx(vtype)) - 1)
    ELSE IF needNormals
         THEN FlatNormal(FacePosition(faces, pos, 1), FacePosition(faces, pos, 2),
                         FacePosition(faces, pos, 3))
         ELSE << 0, 0, 0 >>

FaceUv(vtype, faces, uv, i) ==
    IF UvIdx(vtype) # -1 THEN Elem(uv, Elem(faces[i], UvIdx(vtype)) - 1) ELSE << 0, 0 >>

\* a mutation of FaceVertex: the uv is put after the normal
FaceVertexUvLast(vtype, faces, pos, nrm, uv, needNormals, i) ==
    FacePosition(faces, pos, i)
        \o (IF needNormals THEN FaceNormal(vtype, faces, pos, nrm, needNormals, i)
            ELSE << >>)
        \o (IF UvIdx(vtype) # -1 THEN FaceUv(vtype, faces, uv, i) ELSE << >>)

\* one vertex as appended to vertices (375-398)
FaceVertex(vtype, faces, pos, nrm, uv, needNormals, i) ==
    FacePosition(faces, pos, i)
        \o (IF UvIdx(vtype) # -1 THEN FaceUv(vtype, faces, uv, i) ELSE << >>)
        \o (IF needNormals THEN FaceNormal(vtype, faces, pos, nrm, needNormals, i)
            ELSE << >>)

\* vertices of the record (329-399)
FaceVertices(vtype, faces, pos, nrm, uv, needNormals) ==
    FaceVertex(vtype, faces, pos, nrm, uv, needNormals, 1)
        \o FaceVertex(vtype, faces, pos, nrm, uv, needNormals, 2)
        \o FaceVertex(vtype, faces, pos, nrm, uv, needNormals, 3)

MeshPrefix == << "m", "e", "s", "h", "-", "v", "t", "y", "p", "e" >>
MaterialInfix == << "-", "m", "a", "t", "e", "r", "i", "a", "l" >>

\* a mutation of MeshID: the material left out of the identifier
MeshIDOfVtype(vtype, material) == MeshPrefix \o Itoa(vtype) \o MaterialInfix

\* fmt.Sprintf("mesh-vtype%d-material%s", vtype, material) (401)
MeshID(vtype, material) == MeshPrefix \o Itoa(vtype) \o MaterialInfix \o material

\* (*meshes)[meshID] once the bucket exists (402-406)
MeshAt(map, meshID, vtype, material) ==
    IF meshID \in DOMAIN map THEN map[meshID]
    ELSE [ Vertices |-> << >>, Vtype |-> vtype, MaterialName |-> material ]

\* a mutation of AppendVertices: the vertices of the record replace those of
\* the bucket
ReplaceVertices(map, meshID, mesh, vertices) ==
    Put(map, meshID, [ mesh EXCEPT !.Vertices = vertices ])

\* mesh.Vertices = append(mesh.Vertices, vertices...) (407)
AppendVertices(map, meshID, mesh, vertices) ==
    Put(map, meshID, [ mesh EXCEPT !.Vertices = mesh.Vertices \o vertices ])

\* the bucket write under meshID (400-408)
WriteMeshAt(map, meshID, vtype, material, vertices) ==
    IF Len(vertices) # 0
    THEN AppendVertices(map, meshID, MeshAt(map, meshID, vtype, material), vertices)
    ELSE map

\* the bucket write (400-408)
WriteMesh(map, vtype, material, vertices) ==
    WriteMeshAt(map, MeshID(vtype, material), vtype, material, vertices)

-----------------------------------------------------------------------------
(* LoadObj: the scanner loop (loader.go 231-448) *)

\* The decoder state st is a record of the arguments, the locals and the outcome:
\* options, meshes, materials, positions, normals, uvs, lineCounter,
\* facesCounter, currentMaterial, nsMap, diagnostics, status.

\* a mutation of Fail: the buckets written so far are dropped on failure
FailDiscarding(st, kind) == [ st EXCEPT !.status = kind, !.meshes = [ x \in { } |-> Nil ] ]

\* a return of err, or a panic, while the current record is handled
Fail(st, kind) == [ st EXCEPT !.status = kind ]

\* whether a v / vn / vt record has too many fields (265, 276, 287)
TooManyFields(parts, n) == Len(parts) > n

\* a mutation of AppendPosition: the new position is put first
PrependPosition(st, vert) ==
    IF ~vert.ok THEN Fail(st, MalformedNumber)
    ELSE [ st EXCEPT !.positions = << << vert.val[1], vert.val[2], vert.val[3] >> >> \o @ ]

\* positions = append(positions, Vec3{...}), or the parse error returned (268-272)
AppendPosition(st, vert) ==
    IF ~vert.ok THEN Fail(st, MalformedNumber)
    ELSE [ st EXCEPT !.positions = Append(@, << vert.val[1], vert.val[2], vert.val[3] >>) ]

\* case "v" (264-272)
HandleV(st, parts) ==
    IF TooManyFields(parts, 3) THEN Fail(st, MalformedRecord)
    ELSE IF Len(parts) < 3 THEN Fail(st, SliceBoundsOutOfRange)
    ELSE AppendPosition(st, sliceToFloat32(SubSeq(parts, 1, 3)))

\* normals = append(normals, Vec3{...}), or the parse error returned (279-283)
AppendNormal(st, norm) ==
    IF ~norm.ok THEN Fail(st, MalformedNumber)
    ELSE [ st EXCEPT !.normals = Append(@, << norm.val[1], norm.val[2], norm.val[3] >>) ]

\* case "vn" (275-283)
HandleVn(st, parts) ==
    IF TooManyFields(parts, 3) THEN Fail(st, MalformedRecord)
    ELSE IF Len(parts) < 3 THEN Fail(st, SliceBoundsOutOfRange)
    ELSE AppendNormal(st, sliceToFloat32(SubSeq(parts, 1, 3)))

\* uvs = append(uvs, Vec2{...}), or the parse error returned (290-294)
AppendUv(st, uv) ==
    IF ~uv.ok THEN Fail(st, MalformedNumber)
    ELSE [ st EXCEPT !.uvs = Append(@, << uv.val[1], uv.val[2] >>) ]

\* case "vt" (286-294)
HandleVt(st, parts) ==
    IF TooManyFields(parts, 2) THEN Fail(st, MalformedRecord)
    ELSE IF Len(parts) < 2 THEN Fail(st, SliceBoundsOutOfRange)
    ELSE AppendUv(st, sliceToFloat32(SubSeq(parts, 1, 2)))

\* a mutation of EmitFace: a vertex is written to the bucket before the index
\* resolution fails
EmitFaceVertexByVertex(st, vtype, faces) ==
    IF ~FaceResolves(vtype, faces, st.positions, st.normals, st.uvs)
    THEN [ Fail(st, IndexOutOfRange) EXCEPT
             !.meshes = WriteMesh(@, vtype, st.currentMaterial, << 0, 0, 0 >>) ]
    ELSE [ st EXCEPT
             !.meshes = WriteMesh(@, vtype, st.currentMaterial,
                                  FaceVertices(vtype, faces, st.positions, st.normals,
                                               st.uvs, st.options.NeedNormals)),
             !.facesCounter = @ + 1 ]

\* index resolution, interleaving and the bucket write of a record that passed
\* the checks (329-409)
EmitFace(st, vtype, faces) ==
    IF ~FaceResolves(vtype, faces, st.positions, st.normals, st.uvs)
    THEN Fail(st, IndexOutOfRange)
    ELSE [ st EXCEPT
             !.meshes = WriteMesh(@, vtype, st.currentMaterial,
                                  FaceVertices(vtype, faces, st.positions, st.normals,
                                               st.uvs, st.options.NeedNormals)),
             !.facesCounter = @ + 1 ]

\* a face record whose error checking ended in check
FaceChecked(st, parts, check, vtype) ==
    IF check # Running THEN Fail(st, check)
    ELSE EmitFace(st, vtype, FaceRefs(parts, vtype))

\* case "f" (298-409)
HandleF(st, parts) ==
    IF Len(parts) = 0 THEN Fail(st, IndexOutOfRange)
    ELSE FaceChecked(st, parts, FaceCheck(parts), FaceVtype(parts))

\* a mutation of UsemtlName: a record without field selects the empty name
UsemtlNameOrEmpty(parts) == IF Len(parts) = 0 THEN << >> ELSE parts[1]

\* the material a usemtl record selects (416-420)
UsemtlName(parts) == IF Len(parts) # 1 \/ parts[1] = << >> THEN Default ELSE parts[1]

\* case "usemtl" (413-420)
HandleUsemtl(st, parts) == [ st EXCEPT !.currentMaterial = UsemtlName(parts) ]

\* the loop over the paths of a mtllib record (425-430): the map afterwards and
\* the error that ended it
RECURSIVE LoadLibraries(_, _)
RECURSIVE NextLibrary(_, _)
LoadLibraries(paths, mats) ==
    IF paths = << >> THEN [ materials |-> mats, err |-> Nil ]
    ELSE NextLibrary(LoadMtl(Head(paths), mats), Tail(paths))

\* r being what LoadMtl handed back: return its error, or go on with the rest
NextLibrary(r, paths) == IF r.err # Nil THEN r ELSE LoadLibraries(paths, r.materials)

\* the loop of 425-430 ended in r
MtllibDone(st, r) ==
    [ st EXCEPT !.materials = r.materials,
                !.status = IF r.err # Nil THEN r.err ELSE @ ]

\* case "mtllib" (423-430)
HandleMtllib(st, parts) == MtllibDone(st, LoadLibraries(parts, st.materials))

\* a mutation of HandleOther: the keyword is reported at every occurrence
HandleOtherEveryTime(st, key) ==
    [ st EXCEPT !.nsMap = @ \cup { key }, !.diagnostics = Append(@, key) ]

\* default (432-438)
HandleOther(st, key) ==
    IF key \in st.nsMap THEN st
    ELSE [ st EXCEPT !.nsMap = @ \cup { key }, !.diagnostics = Append(@, key) ]

\* the switch on the keyword (257-439)
Dispatch(st, key, parts) ==
    CASE key = "#" -> st
      [] key = "v" -> HandleV(st, parts)
      [] key = "vn" -> HandleVn(st, parts)
      [] key = "vt" -> HandleVt(st, parts)
      [] key = "f" -> HandleF(st, parts)
      [] key = "usemtl" -> HandleUsemtl(st, parts)
      [] key = "mtllib" -> HandleMtllib(st, parts)
      [] OTHER -> HandleOther(st, key)

\* lineCounter++ (251)
Counted(st) == [ st EXCEPT !.lineCounter = @ + 1 ]

\* one turn of the scanner loop on the record rec (250-440)
Handle(st, rec) ==
    IF Len(rec) = 0 THEN Counted(st)
    ELSE Dispatch(Counted(st), KeyOf(rec), PartsOf(rec))

\* the name currentMaterial starts with (247)
InitialMaterial == Default

\* a map without entries, as the caller makes it
EmptyMap == [ x \in { } |-> Nil ]

\* LoadObj(filePath, &meshes, &materials, opts) at the start of its loop (231-248)
Invocation(callerMeshes, callerMaterials, opts) ==
    [ options |-> opts, meshes |-> callerMeshes, materials |-> callerMaterials,
      positions |-> << >>, normals |-> << >>, uvs |-> << >>,
      lineCounter |-> 0, facesCounter |-> 0,
      currentMaterial |-> InitialMaterial, nsMap |-> { },
      diagnostics |-> << >>, status |-> Running ]

-----------------------------------------------------------------------------
(* The records the model reads *)

\* face tokens
Tok(a) == Itoa(a)
TokUv(a, b) == Itoa(a) \o << "/" >> \o Itoa(b)
TokUvN(a, b, c) == Itoa(a) \o << "/" >> \o Itoa(b) \o << "/" >> \o Itoa(c)
TokN(a, c) == Itoa(a) \o << "/", "/" >> \o Itoa(c)
TokFour == << "1", "/", "2", "/", "3", "/", "4" >>

Triples(S) == { << a, b, c >> : a \in S, b \in S, c \in S }

VInputs ==
    { << T0, T0, T0 >>, << T1, T0, T0 >>, << T0, T1, T0 >>,
      << T0, T0 >>, << T0, T0, T0, T1 >>, << TX, T0, T0 >>, << >> }

VnInputs ==
    { << T0, T0, T1 >>, << T1, T0, T0 >>,
      << T0, T0 >>, << T0, T0, T1, T1 >>, << T0, TX, T0 >> }

VtInputs ==
    { << T0, T0 >>, << T1, T0 >>,
      << T0 >>, << T0, T0, T0 >>, << T0, TX >> }

\* records of three tokens of one encoding: resolvable where the arrays are
\* long enough, and with an index of 0 or beyond the arrays
UniformFaces ==
    { << Tok(1), Tok(1), Tok(1) >>, << Tok(1), Tok(2), Tok(3) >>,
      << Tok(2), Tok(1), Tok(1) >>, << Tok(1), Tok(0), Tok(1) >>,
      << TokUv(1, 1), TokUv(1, 1), TokUv(1, 1) >>,
      << TokUv(1, 1), TokUv(2, 2), TokUv(1, 1) >>,
      << TokUv(1, 1), TokUv(1, 1), TokUv(1, 0) >>,
      << TokUvN(1, 1, 1), TokUvN(1, 1, 1), TokUvN(1, 1, 1) >>,
      << TokUvN(1, 1, 1), TokUvN(1, 1, 2), TokUvN(1, 1, 1) >>,
      << TokUvN(1, 1, 1), TokUvN(1, 1, 1), TokUvN(1, 0, 1) >>,
      << TokN(1, 1), TokN(1, 1), TokN(1, 1) >>,
      << TokN(1, 1), TokN(2, 2), TokN(1, 1) >>,
      << TokN(1, 1), TokN(1, 1), TokN(1, 0) >> }

\* records whose tokens differ in encoding, or have none
MixedFaces ==
    { << Tok(1), TokUv(2, 3), TokUvN(4, 5, 6) >>,
      << Tok(1), Tok(1), TokN(1, 1) >>,
      << TokUv(1, 1), TokN(1, 1), TokUv(1, 1) >>,
      << TokUvN(1, 1, 1), TokN(1, 1), TokUvN(1, 1, 1) >>,
      << TokFour, Tok(1), Tok(1) >>,
      << Tok(1), TokFour, Tok(1) >>,
      << TokFour, TokFour, TokFour >> }

\* records with index text that is no integer, or with stray slashes
OddFaces ==
    { << TX, Tok(1), Tok(1) >>,
      << << "1", "x" >>, Tok(1), Tok(1) >>,
      << << "/" >>, Tok(1), Tok(1) >>,
      << << "1", "/" >>, << "/", "1" >>, Tok(1) >>,
      << << "-", "1" >>, Tok(1), Tok(1) >>,
      << << "1", "/", "x" >>, TokUv(1, 1), TokUv(1, 1) >> }

\* records of fewer or more than three tokens
OtherLengthFaces ==
    { << >>,
      << Tok(1) >>,
      << Tok(1), Tok(1) >>,
      << TokFour, Tok(1) >>,
      << Tok(1), Tok(1), Tok(1), Tok(1) >>,
      << TokFour, Tok(1), Tok(1), Tok(1) >>,
      << Tok(1), TokUv(1, 1), Tok(1), Tok(1), Tok(1) >> }

FaceInputs == UniformFaces \cup MixedFaces \cup OddFaces \cup OtherLengthFaces

UsemtlInputs == { << >>, << MatA >>, << MatA, MatB >> }

MtllibInputs == { << >>, << LibA >>, << LibBad >>, << LibMissing >>, << LibA, LibMissing >> }

OtherKeys == { "g", "s" }

-----------------------------------------------------------------------------
(* One invocation of LoadObj *)

\* the decoder state the variables hold
Dec ==
    [ options |-> options, meshes |-> meshes, materials |-> materials,
      positions |-> positions, normals |-> normals, uvs |-> uvs,
      lineCounter |-> lineCounter, facesCounter |-> facesCounter,
      currentMaterial |-> currentMaterial, nsMap |-> nsMap,
      diagnostics |-> diagnostics, status |-> status ]

\* the variables hold st
Holds(st) ==
    /\ options = st.options
    /\ meshes = st.meshes
    /\ materials = st.materials
    /\ positions = st.positions
    /\ normals = st.normals
    /\ uvs = st.uvs
    /\ lineCounter = st.lineCounter
    /\ facesCounter = st.facesCounter
    /\ currentMaterial = st.currentMaterial
    /\ nsMap = st.nsMap
    /\ diagnostics = st.diagnostics
    /\ status = st.status

\* the variables hold st next
Becomes(st) ==
    /\ options' = st.options
    /\ meshes' = st.meshes
    /\ materials' = st.materials
    /\ positions' = st.positions
    /\ normals' = st.normals
    /\ uvs' = st.uvs
    /\ lineCounter' = st.lineCounter
    /\ facesCounter' = st.facesCounter
    /\ currentMaterial' = st.currentMaterial
    /\ nsMap' = st.nsMap
    /\ diagnostics' = st.diagnostics
    /\ status' = st.status

\* LoadMtl is not run on its own
NoMtlRun == m = Nil /\ mtlStatus = Nil /\ mtlLines = << >>

\* getFaceType is not applied on its own
NoClassify == p = << >> /\ faceType = << >>

\* LoadObj is not invoked twice
NoRerun == run = 0 /\ input = << >> /\ cursor = 0 /\ first = Nil /\ given = Nil

\* LoadObj is not invoked: the caller's maps are empty
NoDecode ==
    Holds([ Invocation(EmptyMap, EmptyMap, [ NeedNormals |-> FALSE ]) EXCEPT !.status = Nil ])

\* the call LoadObj(filePath, &meshes, &materials, options) with fresh maps
Init ==
    /\ \E opts \in [ NeedNormals : BOOLEAN ] : Holds(Invocation(EmptyMap, EmptyMap, opts))
    /\ NoMtlRun
    /\ NoClassify
    /\ NoRerun

Reading == run = 0 /\ status = Running /\ lineCounter < MaxLines

Rest == UNCHANGED << mtlVars, clsVars, runVars >>

\* os.Open fails (233-236)
OpenFails ==
    /\ run = 0 /\ status = Running /\ lineCounter = 0
    /\ Becomes(Fail(Dec, IOFailure))
    /\ Rest

RecBlank == Reading /\ Rest /\ Becomes(Handle(Dec, << >>))

RecComment == Reading /\ Rest /\ Becomes(Handle(Dec, << "#", TX >>))

RecV == Reading /\ Rest /\ \E parts \in VInputs : Becomes(Handle(Dec, << "v" >> \o parts))

RecVn == Reading /\ Rest /\ \E parts \in VnInputs : Becomes(Handle(Dec, << "vn" >> \o parts))

RecVt == Reading /\ Rest /\ \E parts \in VtInputs : Becomes(Handle(Dec, << "vt" >> \o parts))

RecF == Reading /\ Rest /\ \E parts \in FaceInputs : Becomes(Handle(Dec, << "f" >> \o parts))

RecUsemtl ==
    Reading /\ Rest /\ \E parts \in UsemtlInputs : Becomes(Handle(Dec, << "usemtl" >> \o parts))

RecMtllib ==
    Reading /\ Rest /\ \E parts \in MtllibInputs : Becomes(Handle(Dec, << "mtllib" >> \o parts))

RecOther == Reading /\ Rest /\ \E key \in OtherKeys : Becomes(Handle(Dec, << key, TX >>))

\* scanner.Scan() returns false at the end of the input; scanner.Err() is nil (442-447)
ReturnNil ==
    /\ run = 0 /\ status = Running
    /\ Becomes([ Dec EXCEPT !.status = Ok ])
    /\ Rest

\* scanner.Scan() returns false on a read error; scanner.Err() is returned (442-445)
ReturnScanErr ==
    /\ run = 0 /\ status = Running
    /\ Becomes(Fail(Dec, IOFailure))
    /\ Rest

Next ==
    \/ OpenFails
    \/ RecBlank
    \/ RecComment
    \/ RecV
    \/ RecVn
    \/ RecVt
    \/ RecF
    \/ RecUsemtl
    \/ RecMtllib
    \/ RecOther
    \/ ReturnNil
    \/ ReturnScanErr

Spec == Init /\ [][Next]_vars

-----------------------------------------------------------------------------
(* LoadMtl on its own, record by record *)

MtlInputs ==
    { << >>,
      << "#", TX >>,
      << "map_Kd", TX >>,
      << "newmtl", Wood >>,
      << "newmtl", MatA >>,
      << "newmtl" >>,
      << "Ns", T1 >>,
      << "Ns", << "2" >> >>,
      << "Ns" >>,
      << "Ns", T1, << "2" >> >>,
      << "Ns", TX >>,
      << "Ni", T1 >>,
      << "d", << "0", ".", "5" >> >>,
      << "illum", << "2" >> >>,
      << "illum", << "1", ".", "5" >> >>,
      << "illum" >>,
      << "Kd", << "0", ".", "5" >>, << "0", ".", "3" >>, << "0", ".", "1" >> >>,
      << "Kd", T1, T0, T0 >>,
      << "Kd", T1, T0 >>,
      << "Kd", T0, T1, T0, T1 >>,
      << "Kd", TX, T0, T0 >>,
      << "Kd", T1, T0, T0, TX >>,
      << "Ka", T1, T0, T0 >>,
      << "Ka", T1 >>,
      << "Ks", T0, T1, T0 >>,
      << "Ke", T0, T0, T1 >>,
      << "Ki", T1, T1, T1 >> }

MtlRecordsOf(keys) == { rec \in MtlInputs : rec # << >> /\ KeyOf(rec) \in keys }

\* the state of the loop the variables hold
MtlDec == [ m |-> m, materials |-> materials, status |-> mtlStatus ]

MtlBecomes(st) ==
    /\ m' = st.m
    /\ materials' = st.materials
    /\ mtlStatus' = st.status

\* the call LoadMtl(filePath, &materials) with a fresh map
InitMtl ==
    /\ NoDecode
    /\ m = Nil /\ mtlStatus = Running /\ mtlLines = << >>
    /\ NoClassify
    /\ NoRerun

MtlReading == mtlStatus = Running /\ Len(mtlLines) < MaxMtlLines

MtlRest ==
    UNCHANGED << options, meshes, positions, normals, uvs, lineCounter, facesCounter,
                 currentMaterial, nsMap, diagnostics, status, clsVars, runVars >>

\* one turn of the loop on rec
MtlRead(rec) ==
    /\ MtlReading
    /\ MtlBecomes(MtlLine(MtlDec, rec))
    /\ mtlLines' = Append(mtlLines, rec)
    /\ MtlRest

\* os.Open fails (120-123)
MtlOpenFails ==
    /\ mtlStatus = Running /\ mtlLines = << >>
    /\ MtlBecomes(MtlFail(MtlDec, IOFailure))
    /\ UNCHANGED mtlLines
    /\ MtlRest

MtlRecBlank == MtlRead(<< >>)

MtlRecNewmtl == \E rec \in MtlRecordsOf({ "newmtl" }) : MtlRead(rec)

MtlRecScalar == \E rec \in MtlRecordsOf(ScalarKeys) : MtlRead(rec)

MtlRecVector == \E rec \in MtlRecordsOf(VectorKeys) : MtlRead(rec)

MtlRecOther == \E rec \in MtlRecordsOf({ "#", "map_Kd" }) : MtlRead(rec)

\* the scanner is at the end of the file: return nil (225)
MtlReturnNil ==
    /\ mtlStatus = Running
    /\ MtlBecomes([ MtlDec EXCEPT !.status = Ok ])
    /\ UNCHANGED mtlLines
    /\ MtlRest

NextMtl ==
    \/ MtlOpenFails
    \/ MtlRecBlank
    \/ MtlRecNewmtl
    \/ MtlRecScalar
    \/ MtlRecVector
    \/ MtlRecOther
    \/ MtlReturnNil

SpecMtl == InitMtl /\ [][NextMtl]_vars

-----------------------------------------------------------------------------
(* getFaceType on its own *)

RECURSIVE TextsUpTo(_, _)
TextsUpTo(alphabet, n) ==
    IF n = 0 THEN { << >> }
    ELSE LET shorter == TextsUpTo(alphabet, n - 1)
         IN  shorter \cup { Append(t, c) : t \in shorter, c \in alphabet }

ClassifyInputs ==
    TextsUpTo({ "1", "2", "/" }, MaxTokLen)
    \cup { Tok(1), TokUv(1, 2), TokUvN(1, 2, 3), TokN(1, 3), TokFour, << >> }

InitClassify ==
    /\ NoDecode
    /\ NoMtlRun
    /\ p \in ClassifyInputs /\ faceType = << >>
    /\ NoRerun

\* getFaceType(p) returns
Classify ==
    /\ faceType = << >>
    /\ faceType' = << getFaceType(p) >>
    /\ UNCHANGED << objVars, mtlVars, p, runVars >>

NextClassify == Classify

SpecClassify == InitClassify /\ [][NextClassify]_vars

-----------------------------------------------------------------------------
(* LoadObj invoked twice on the same input *)

RerunInputs ==
    { << >>,
      << "v", T0, T0, T0 >>,
      << "v", T1, T0, T0 >>,
      << "v", T0, T1 >>,
      << "vn", T0, T0, T1 >>,
      << "vt", T1, T0 >>,
      << "f", Tok(1), Tok(1), Tok(1) >>,
      << "f", Tok(1), Tok(2), Tok(1) >>,
      << "f", TokN(1, 1), TokN(1, 1), TokN(1, 1) >>,
      << "f", TokUv(1, 1), TokUv(1, 1), TokUv(1, 1) >>,
      << "f", Tok(1), Tok(1) >>,
      << "usemtl", MatA >>,
      << "usemtl" >>,
      << "mtllib", LibA >>,
      << "mtllib", LibBad >>,
      << "g", TX >> }

\* what an invocation hands back to its caller: the two maps and the error
Returned(st) == [ meshes |-> st.meshes, materials |-> st.materials, err |-> st.status ]

InitRerun ==
    /\ \E opts \in [ NeedNormals : BOOLEAN ] : Holds(Invocation(EmptyMap, EmptyMap, opts))
    /\ NoMtlRun
    /\ NoClassify
    /\ run = 1 /\ input = << >> /\ cursor = 0 /\ first = Nil /\ given = Nil

RerunRest == UNCHANGED << mtlVars, clsVars >>

\* the first invocation reads a record
FirstRead ==
    /\ run = 1 /\ status = Running /\ Len(input) < MaxRerunLines
    /\ \E rec \in RerunInputs :
          /\ Becomes(Handle(Dec, rec))
          /\ input' = Append(input, rec)
    /\ UNCHANGED << run, cursor, first, given >>
    /\ RerunRest

\* the first invocation is at the end of its input
FirstReturnNil ==
    /\ run = 1 /\ status = Running
    /\ Becomes([ Dec EXCEPT !.status = Ok ])
    /\ UNCHANGED runVars
    /\ RerunRest

\* the maps a caller passes: new ones, or those an invocation has filled
FreshMaps == [ meshes |-> EmptyMap, materials |-> EmptyMap ]
FilledMaps(st) == [ meshes |-> st.meshes, materials |-> st.materials ]

\* a mutation of Reinvoked: currentMaterial survives the return of LoadObj
ReinvokedKeepingMaterial(prev, maps) ==
    [ Invocation(maps.meshes, maps.materials, prev.options)
        EXCEPT !.currentMaterial = prev.currentMaterial ]

\* LoadObj called again with the options of the invocation that ended in prev:
\* its locals are declared anew (240-248)
Reinvoked(prev, maps) == Invocation(maps.meshes, maps.materials, prev.options)

\* the caller keeps a copy of what the first invocation handed back and calls
\* LoadObj again on the same input with the same options, passing new maps or
\* the maps the first invocation wrote into
Reinvoke ==
    /\ run = 1 /\ status # Running
    /\ first' = Returned(Dec)
    /\ run' = 2
    /\ cursor' = 0
    /\ \E maps \in { FreshMaps, FilledMaps(Dec) } :
          /\ given' = maps
          /\ Becomes(Reinvoked(Dec, maps))
    /\ UNCHANGED input
    /\ RerunRest

\* the second invocation reads the next record of the input
SecondRead ==
    /\ run = 2 /\ status = Running /\ cursor < Len(input)
    /\ Becomes(Handle(Dec, input[cursor + 1]))
    /\ cursor' = cursor + 1
    /\ UNCHANGED << run, input, first, given >>
    /\ RerunRest

\* the second invocation is at the end of the input
SecondReturnNil ==
    /\ run = 2 /\ status = Running /\ cursor = Len(input)
    /\ Becomes([ Dec EXCEPT !.status = Ok ])
    /\ UNCHANGED runVars
    /\ RerunRest

NextRerun ==
    \/ FirstRead
    \/ FirstReturnNil
    \/ Reinvoke
    \/ SecondRead
    \/ SecondReturnNil

SpecRerun == InitRerun /\ [][NextRerun]_vars

-----------------------------------------------------------------------------
(* Properties.  A property of the form "in every reachable state, reading   *)
(* record r leads to ..." is stated on After(r), the decoder state one turn *)
(* of the loop on r leads to from the state the variables hold.             *)

\* LoadObj is about to read one more record
Decoding == status = Running /\ lineCounter < MaxLines

\* the state after one more record rec
After(rec) == Handle(Dec, rec)

\* the buckets of new that old has not, or has with another content
ChangedBuckets(old, new) ==
    { id \in DOMAIN new : id \notin DOMAIN old \/ new[id] # old[id] }

\* the part of s after its first n elements
Beyond(s, n) == SubSeq(s, n + 1, Len(s))

\* the vertices bucket id of new has after those it has in old
AppendedTo(old, new, id) ==
    Beyond(new[id].Vertices, IF id \in DOMAIN old THEN Len(old[id].Vertices) ELSE 0)

\* s begins with t
StartsWith(s, t) == Len(t) <= Len(s) /\ SubSeq(s, 1, Len(t)) = t

\* the token of encoding e that carries position r[1], uv r[2] and normal r[3]
TokenOf(e, r) ==
    CASE e = 0 -> Tok(r[1])
      [] e = 1 -> TokUv(r[1], r[2])
      [] e = 2 -> TokUvN(r[1], r[2], r[3])
      [] e = 3 -> TokN(r[1], r[3])

Encodings == 0..3
CarriesUv(e) == e \in { 1, 2 }
CarriesNormal(e) == e \in { 2, 3 }

\* floats per vertex of a bucket of encoding e
Stride(e, needNormals) ==
    3 + (IF CarriesUv(e) THEN 2 ELSE 0) + (IF needNormals THEN 3 ELSE 0)

-----------------------------------------------------------------------------
(* C1 *)

\* the indices a token is given: 0, and 1 and 2, which are within an array or
\* beyond it as the array has grown
C1_Indices == 0..2

\* references of one token of encoding e: all 1 but at most one of the
\* position, uv and normal the encoding carries
C1_Refs(e) ==
    { << a, 1, 1 >> : a \in C1_Indices }
        \cup (IF CarriesUv(e) THEN { << 1, b, 1 >> : b \in C1_Indices } ELSE { })
        \cup (IF CarriesNormal(e) THEN { << 1, 1, c >> : c \in C1_Indices } ELSE { })

\* the face record of encoding e whose k-th token carries r, the others 1/1/1
C1_Parts(e, k, r) == [ i \in 1..3 |-> TokenOf(e, IF i = k THEN r ELSE << 1, 1, 1 >>) ]

\* the cases: encoding e, token k, references r, and the record read
C1_Cases ==
    UNION { { [ e |-> e, k |-> k, r |-> r, rec |-> << "f" >> \o C1_Parts(e, k, r) ] :
                k \in 1..3, r \in C1_Refs(e) } : e \in Encodings }

\* whether index i is within an array of length n
C1_Within(i, n) == 1 <= i /\ i <= n

\* every index the token r of encoding e carries is within its array
C1_TokenInRange(e, r) ==
    /\ C1_Within(r[1], Len(positions))
    /\ CarriesUv(e) => C1_Within(r[2], Len(uvs))
    /\ CarriesNormal(e) => C1_Within(r[3], Len(normals))

\* the k-th vertex of the vertices a record appended
C1_Vertex(appended, e, k) ==
    SubSeq(appended, (k - 1) * Stride(e, options.NeedNormals) + 1,
           k * Stride(e, options.NeedNormals))

\* the k-th vertex uses the elements (counted from 1) the token r refers to
C1_Uses(vertex, e, r) ==
    /\ SubSeq(vertex, 1, 3) = positions[r[1]]
    /\ CarriesUv(e) => SubSeq(vertex, 4, 5) = uvs[r[2]]
    /\ (CarriesNormal(e) /\ options.NeedNormals) =>
           SubSeq(vertex, Len(vertex) - 2, Len(vertex)) = normals[r[3]]

\* the outcome out of case c
C1_Outcome(c, out) ==
    IF C1_TokenInRange(c.e, c.r) /\ C1_TokenInRange(c.e, << 1, 1, 1 >>)
    THEN /\ out.status = Running
         /\ \E id \in DOMAIN out.meshes :
               /\ ChangedBuckets(meshes, out.meshes) = { id }
               /\ C1_Uses(C1_Vertex(AppendedTo(meshes, out.meshes, id), c.e, c.k), c.e, c.r)
    ELSE out.status = IndexOutOfRange

\* C1: in every state LoadObj can be in, a face record whose tokens carry
\* indices i with 1 <= i <= length of the referenced array is accepted and the
\* vertex of each token uses element i-1 (counted from 0) of that array; a face
\* record with an index that is 0 or greater than the length of its array
\* fails with IndexOutOfRange.
C1_IndexResolution ==
    Decoding => \A c \in C1_Cases : C1_Outcome(c, After(c.rec))

\* a face record was accepted whose first token refers to the second of two
\* different positions: its bucket begins with that position
C1_Witness ==
    /\ Len(positions) >= 2
    /\ positions[1] # positions[2]
    /\ \E id \in DOMAIN meshes : StartsWith(meshes[id].Vertices, positions[2])

-----------------------------------------------------------------------------
(* C2 *)

\* C2 (as claimed): getFaceType returns 0 for "1", 1 for "1/2", 2 for "1/2/3",
\* 3 for "1//3", and -1 for "1/2/3/4" and for the empty token.
C2_Classification ==
    faceType # << >> =>
        /\ p = Tok(1) => faceType = << 0 >>
        /\ p = TokUv(1, 2) => faceType = << 1 >>
        /\ p = TokUvN(1, 2, 3) => faceType = << 2 >>
        /\ p = TokN(1, 3) => faceType = << 3 >>
        /\ p = TokFour => faceType = << -1 >>
        /\ p = << >> => faceType = << -1 >>

-----------------------------------------------------------------------------
(* C3 *)

\* tokens with their encoding; -1: more than three segments
C3_Tokens ==
    { [ enc |-> 0, text |-> Tok(1) ],
      [ enc |-> 1, text |-> TokUv(2, 3) ],
      [ enc |-> 2, text |-> TokUvN(4, 5, 6) ],
      [ enc |-> 3, text |-> TokN(1, 1) ],
      [ enc |-> -1, text |-> TokFour ] }

\* face records of three tokens that are not all of one encoding: those with
\* two tokens alike, and "f 1 2/3 4/5/6"
C3_Mixed ==
    { [ first |-> t[1].enc, rec |-> << "f", t[1].text, t[2].text, t[3].text >> ] :
        t \in { u \in Triples(C3_Tokens) :
                  /\ ~(u[1] = u[2] /\ u[2] = u[3])
                  /\ \/ u[1] = u[2] \/ u[2] = u[3] \/ u[1] = u[3]
                     \/ << u[1].enc, u[2].enc, u[3].enc >> = << 0, 1, 2 >> } }

\* the state out is a failure of kind with every bucket as it is now
C3_Rejected(out, kind) == out.status = kind /\ out.meshes = meshes

\* C3 (as claimed): a face record whose three tokens do not all classify to
\* the same encoding fails with InconsistentFaceFormat and changes no bucket.
C3_MixedIsInconsistent ==
    Decoding => \A c \in C3_Mixed : C3_Rejected(After(c.rec), InconsistentFaceFormat)

\* C3 (amended): a face record of three tokens that are not all of one
\* encoding changes no bucket and fails: with InconsistentFaceFormat when its
\* first token has one of the four encodings, with UndefinedFaceFormat when
\* its first token has more than three slash-segments.
C3_MixedFails ==
    Decoding =>
        \A c \in C3_Mixed :
            C3_Rejected(After(c.rec),
                        IF c.first = -1 THEN UndefinedFaceFormat ELSE InconsistentFaceFormat)

\* a decode with a bucket written has ended in InconsistentFaceFormat
C3_Witness == status = InconsistentFaceFormat /\ DOMAIN meshes # { }

-----------------------------------------------------------------------------
(* C4 *)

\* face records of 0, 1, 2, 4 and 5 tokens
C4_Records ==
    { << >>, << Tok(1) >>, << Tok(1), Tok(1) >>, << TokUv(1, 1), Tok(1) >>,
      << Tok(1), Tok(1), Tok(1), Tok(1) >>,
      << Tok(1), TokUv(1, 1), Tok(1), Tok(1), Tok(1) >> }

\* C4 (as claimed): a face record with 0, 1 or 2 tokens fails with
\* FaceTooShort, one with 4 or more tokens with UnsupportedFacePolygon, and
\* neither creates or changes a bucket.
C4_TokenCount ==
    Decoding =>
        \A parts \in C4_Records :
            C3_Rejected(After(<< "f" >> \o parts),
                        IF Len(parts) < 3 THEN FaceTooShort ELSE UnsupportedFacePolygon)

-----------------------------------------------------------------------------
(* C5 *)

\* material names, some made to collide under a careless identifier
C5_Names == { Default, MatA, MatB, << "1" >>, << "a", "1" >>, << >> }

\* uniform face records with their encoding, every index 1
C5_Faces == { [ enc |-> e, parts |-> C1_Parts(e, 1, << 1, 1, 1 >>) ] : e \in Encodings }

\* the record f, if accepted, appends to the bucket of (f.enc, currentMaterial)
\* and to no other
C5_Routed(f) ==
    LET out == After(<< "f" >> \o f.parts)
    IN  out.status = Running =>
            \E id \in DOMAIN out.meshes :
                /\ ChangedBuckets(meshes, out.meshes) = { id }
                /\ out.meshes[id].Vtype = f.enc
                /\ out.meshes[id].MaterialName = currentMaterial
                /\ id \in DOMAIN meshes =>
                       /\ meshes[id].Vtype = f.enc
                       /\ meshes[id].MaterialName = currentMaterial
                       /\ StartsWith(out.meshes[id].Vertices, meshes[id].Vertices)
                /\ AppendedTo(meshes, out.meshes, id) # << >>

\* different (encoding, material) pairs have different identifiers
C5_DistinctIdentifiers ==
    \A e1 \in Encodings : \A e2 \in Encodings :
        \A n1 \in C5_Names : \A n2 \in C5_Names :
            MeshID(e1, n1) = MeshID(e2, n2) => (e1 = e2 /\ n1 = n2)

\* C5: every accepted face record appends its vertices, after those already
\* there, to the one bucket of (its encoding, the current material) and changes
\* no other bucket; buckets of different (encoding, material) pairs are
\* different buckets, and different pairs have different identifiers.
C5_Bucketing ==
    /\ Decoding => \A f \in C5_Faces : C5_Routed(f)
    /\ \A id1 \in DOMAIN meshes : \A id2 \in DOMAIN meshes :
           (meshes[id1].Vtype = meshes[id2].Vtype
              /\ meshes[id1].MaterialName = meshes[id2].MaterialName) => id1 = id2
    /\ \A id \in DOMAIN meshes : id = MeshID(meshes[id].Vtype, meshes[id].MaterialName)
    /\ C5_DistinctIdentifiers

\* faces of one encoding, before and after a usemtl, are in two buckets
C5_Witness ==
    \E id1 \in DOMAIN meshes : \E id2 \in DOMAIN meshes :
        /\ id1 # id2
        /\ meshes[id1].Vtype = meshes[id2].Vtype
        /\ meshes[id1].MaterialName # meshes[id2].MaterialName

-----------------------------------------------------------------------------
(* C6 *)

\* C6 (as claimed): when LoadObj has ended with a fatal error, the maps the
\* caller passed, empty at the call, hold nothing written by the records that
\* preceded the failing one.
C6_DiscardedOnError == status \in Failures => (meshes = EmptyMap /\ materials = EmptyMap)

\* C6 (amended): nothing is discarded when LoadObj ends with a fatal error.
\* The step that fails leaves every bucket as the preceding records wrote it,
\* and every material loaded before is still in the material map.
C6_KeptOnError ==
    [][(status = Running /\ status' \in Failures) =>
          (/\ meshes' = meshes
           /\ \A name \in DOMAIN materials : name \in DOMAIN materials')]_vars

\* a decode has failed after a face was written and a library was loaded
C6_Witness ==
    /\ status \in Failures
    /\ \E id \in DOMAIN meshes : meshes[id].Vertices # << >>
    /\ MatA \in DOMAIN materials

-----------------------------------------------------------------------------
(* C7 *)

\* the locals of LoadObj as their declarations leave them (240-248)
C7_LocalsFresh ==
    /\ positions = << >> /\ normals = << >> /\ uvs = << >>
    /\ lineCounter = 0 /\ facesCounter = 0
    /\ currentMaterial = Default
    /\ nsMap = { }

\* the second invocation has returned
C7_SecondReturned == run = 2 /\ status # Running

\* bucket b holds the vertices of bucket a twice, under the same encoding and
\* material
C7_Twice(a, b) ==
    /\ b.Vertices = a.Vertices \o a.Vertices
    /\ b.Vtype = a.Vtype
    /\ b.MaterialName = a.MaterialName

-----------------------------------------------------------------------------
(* C8 *)

\* the numeric texts of the records and their values: floats in tenths, and
\* integers
C8_Tenths ==
    (T0 :> 0) @@ (T1 :> 10) @@ (<< "2" >> :> 20) @@ (<< "0", ".", "5" >> :> 5)
        @@ (<< "0", ".", "3" >> :> 3) @@ (<< "0", ".", "1" >> :> 1)
        @@ (<< "1", ".", "5" >> :> 15)
C8_Ints == (T0 :> 0) @@ (T1 :> 1) @@ (<< "2" >> :> 2)

C8_IsNewmtl(rec) == rec # << >> /\ KeyOf(rec) = "newmtl"
C8_IsProperty(rec) == rec # << >> /\ KeyOf(rec) \in ScalarKeys \cup VectorKeys

\* whether field is a number as the keyword key needs it
C8_Numeric(key, field) ==
    IF key = "illum" THEN field \in DOMAIN C8_Ints ELSE field \in DOMAIN C8_Tenths

\* a valid record: blank, of an unknown keyword, a newmtl with a name, a scalar
\* keyword with one number, a vector keyword with three
C8_Valid(rec) ==
    IF rec = << >> THEN TRUE
    ELSE IF C8_IsNewmtl(rec) THEN Len(rec) = 2
    ELSE IF C8_IsProperty(rec)
         THEN /\ Len(rec) = (IF KeyOf(rec) \in ScalarKeys THEN 2 ELSE 4)
              /\ \A i \in 2..Len(rec) : C8_Numeric(KeyOf(rec), rec[i])
    ELSE TRUE

\* valid records, the property records after a newmtl
C8_ValidSequence(lines) ==
    /\ \A i \in 1..Len(lines) : C8_Valid(lines[i])
    /\ \A i \in 1..Len(lines) :
           C8_IsProperty(lines[i]) => \E j \in 1..(i - 1) : C8_IsNewmtl(lines[j])

\* the value a valid property record gives
C8_ValueOf(rec) ==
    IF KeyOf(rec) = "illum" THEN C8_Ints[rec[2]]
    ELSE IF KeyOf(rec) \in ScalarKeys THEN C8_Tenths[rec[2]]
    ELSE << C8_Tenths[rec[2]], C8_Tenths[rec[3]], C8_Tenths[rec[4]] >>

C8_Max(S) == CHOOSE x \in S : \A y \in S : y <= x
C8_Min(S) == CHOOSE x \in S : \A y \in S : x <= y

\* the records of lines that follow the last "newmtl name", up to the next
\* newmtl record
C8_Scope(lines, name) ==
    LET start == C8_Max({ i \in 1..Len(lines) : lines[i] = << "newmtl", name >> })
        stop  == C8_Min({ i \in (start + 1)..(Len(lines) + 1) :
                            i = Len(lines) + 1 \/ C8_IsNewmtl(lines[i]) })
    IN  (start + 1)..(stop - 1)

\* the value of the field of keyword key: the last one set in scope, or zero
C8_Field(lines, scope, key) ==
    LET setters == { i \in scope : lines[i] # << >> /\ KeyOf(lines[i]) = key }
    IN  IF setters # { } THEN C8_ValueOf(lines[C8_Max(setters)])
        ELSE IF key \in VectorKeys THEN << 0, 0, 0 >> ELSE 0

C8_Record(lines, name, scope) ==
    [ Name |-> name,
      Ns |-> C8_Field(lines, scope, "Ns"), Ni |-> C8_Field(lines, scope, "Ni"),
      D |-> C8_Field(lines, scope, "d"), Illum |-> C8_Field(lines, scope, "illum"),
      Ka |-> C8_Field(lines, scope, "Ka"), Kd |-> C8_Field(lines, scope, "Kd"),
      Ks |-> C8_Field(lines, scope, "Ks"), Ke |-> C8_Field(lines, scope, "Ke"),
      Ki |-> C8_Field(lines, scope, "Ki") ]

\* the material map the records of lines describe
C8_Expected(lines) ==
    [ name \in { lines[i][2] : i \in { j \in 1..Len(lines) : C8_IsNewmtl(lines[j]) } } |->
        C8_Record(lines, name, C8_Scope(lines, name)) ]

C8_WoodExample ==
    << << "newmtl", Wood >>,
       << "Kd", << "0", ".", "5" >>, << "0", ".", "3" >>, << "0", ".", "1" >> >> >>

\* C8: after LoadMtl has read a sequence of valid records it has not failed,
\* and the material map holds, for each name given by a newmtl record, one
\* record of that name whose fields have the last value set between the last
\* newmtl of that name and the next newmtl record, and zero where none was set.
\* After "newmtl wood", "Kd 0.5 0.3 0.1" the map holds "wood" alone, with
\* Kd = (0.5, 0.3, 0.1) and Ns = 0.
C8_LastDefinitionWins ==
    (mtlStatus # IOFailure /\ C8_ValidSequence(mtlLines)) =>
        /\ mtlStatus \in { Running, Ok }
        /\ materials = C8_Expected(mtlLines)
        /\ mtlLines = C8_WoodExample =>
               /\ DOMAIN materials = { Wood }
               /\ materials[Wood].Name = Wood
               /\ materials[Wood].Kd = << 5, 3, 1 >>
               /\ materials[Wood].Ns = 0

\* LoadMtl has read "newmtl wood", "Kd 0.5 0.3 0.1"
C8_Witness == mtlLines = C8_WoodExample /\ mtlStatus = Ok /\ Wood \in DOMAIN materials

-----------------------------------------------------------------------------
(* C9 *)

\* LoadMtl is about to read a record
C9_Reading == mtlStatus = Running /\ Len(mtlLines) < MaxMtlLines

\* records of a scalar keyword without exactly one field, or of a vector
\* keyword without exactly three
C9_WrongArity ==
    { rec \in MtlRecordsOf(ScalarKeys \cup VectorKeys) :
        Len(rec) # (IF KeyOf(rec) \in ScalarKeys THEN 2 ELSE 4) }

\* C9 (as claimed): with a current material, a record of a scalar keyword with
\* fewer or more than one field, or of a vector keyword with fewer or more than
\* three, fails with MalformedRecord and leaves the material map as it is.
C9_ArityEnforced ==
    (C9_Reading /\ m # Nil) =>
        \A rec \in C9_WrongArity :
            /\ MtlLine(MtlDec, rec).status = MalformedRecord
            /\ MtlLine(MtlDec, rec).materials = materials

-----------------------------------------------------------------------------
(* C10 *)

\* what reading a record of a known property keyword ends in when there is no
\* current material
C10_Outcome(rec) ==
    IF Len(rec) - 1 < (IF KeyOf(rec) \in ScalarKeys THEN 1 ELSE 3) THEN MalformedRecord
    ELSE IF KeyOf(rec) \in ScalarKeys /\ ~C8_Numeric(KeyOf(rec), rec[2]) THEN MalformedNumber
    ELSE IF KeyOf(rec) \in VectorKeys
            /\ \E i \in 2..Len(rec) : ~C8_Numeric(KeyOf(rec), rec[i]) THEN MalformedNumber
    ELSE NoActiveMaterial

\* reading rec ends in kind and creates no material
C10_EndsIn(out, kind) == out.status = kind /\ out.materials = materials /\ out.m = Nil

\* C10 (as claimed): before the first newmtl record, every record of a property
\* keyword is a fatal NoActiveMaterial condition and creates no material.
C10_AlwaysNoActiveMaterial ==
    (C9_Reading /\ m = Nil) =>
        \A rec \in MtlRecordsOf(ScalarKeys \cup VectorKeys) :
            C10_EndsIn(MtlLine(MtlDec, rec), NoActiveMaterial)

\* C10 (amended): before the first newmtl record, a record of a property
\* keyword ends the decode and creates no material: with MalformedRecord when
\* it has too few fields, with MalformedNumber when a field it reads is not a
\* number, with NoActiveMaterial otherwise.  A blank line or a record of any
\* other keyword than newmtl is skipped and the decode goes on.
C10_FatalBeforeNewmtl ==
    (C9_Reading /\ m = Nil) =>
        \A rec \in MtlInputs :
            IF C8_IsProperty(rec) THEN C10_EndsIn(MtlLine(MtlDec, rec), C10_Outcome(rec))
            ELSE IF C8_IsNewmtl(rec) THEN TRUE
            ELSE C10_EndsIn(MtlLine(MtlDec, rec), Running)

\* LoadMtl has ended in NoActiveMaterial with no material created
C10_Witness ==
    /\ mtlStatus = NoActiveMaterial /\ m = Nil /\ materials = EmptyMap
    /\ mtlLines # << >> /\ C8_IsProperty(mtlLines[Len(mtlLines)])

-----------------------------------------------------------------------------
(* C11 *)

\* v, vn and vt records with fewer or more fields than their keyword takes
C11_WrongArity ==
    { << "v", T0, T0 >>, << "v", T1 >>, << "v" >>, << "v", T0, T0, T0, T1 >>,
      << "vn", T0, T0 >>, << "vn", T0, T0, T1, T1 >>,
      << "vt", T0 >>, << "vt", T0, T0, T0 >> }

\* the three arrays of out are those of the state
C11_ArraysKept(out) ==
    out.positions = positions /\ out.normals = normals /\ out.uvs = uvs

\* C11 (as claimed): a v, vn or vt record with fewer or more fields than its
\* keyword takes fails with MalformedRecord and appends nothing.
C11_ArityEnforced ==
    Decoding =>
        \A rec \in C11_WrongArity :
            After(rec).status = MalformedRecord /\ C11_ArraysKept(After(rec))

-----------------------------------------------------------------------------
(* C12 *)

\* records of keywords LoadObj does not know
C12_Records == { << "g", TX >>, << "s", T1 >>, << "vp", T0, T0 >>, << "o" >> }

\* the record rec was skipped: nothing but the line count, the warned keywords
\* and the diagnostics differs in out, and the keyword is reported unless it
\* was before
C12_Skipped(rec, out) ==
    /\ out.status = Running
    /\ C11_ArraysKept(out)
    /\ out.currentMaterial = currentMaterial
    /\ out.meshes = meshes
    /\ out.materials = materials
    /\ out.facesCounter = facesCounter
    /\ out.nsMap = nsMap \cup { KeyOf(rec) }
    /\ out.diagnostics =
           IF KeyOf(rec) \in nsMap THEN diagnostics ELSE Append(diagnostics, KeyOf(rec))

\* C12: a record of an unknown keyword never fails the decode and leaves the
\* arrays, the current material, every bucket and the material map unchanged;
\* its keyword is reported if and only if it was not reported before, so that
\* in every state the diagnostics name every keyword met so far exactly once.
C12_DiagnosedOnce ==
    /\ Decoding => \A rec \in C12_Records : C12_Skipped(rec, After(rec))
    /\ \A i \in 1..Len(diagnostics) : \A j \in 1..Len(diagnostics) :
           diagnostics[i] = diagnostics[j] => i = j
    /\ { diagnostics[i] : i \in 1..Len(diagnostics) } = nsMap

\* two unknown keywords were reported, and a third record of one of them was
\* read without a report
C12_Witness ==
    /\ status = Running /\ lineCounter = 3
    /\ Len(diagnostics) = 2 /\ nsMap = { "g", "s" }
    /\ After(<< "g", TX >>).diagnostics = diagnostics

-----------------------------------------------------------------------------
(* C13 *)

\* the positions (0,0,0), (1,0,0), (0,1,0), in tenths
C13_Triangle == << << 0, 0, 0 >>, << 10, 0, 0 >>, << 0, 10, 0 >> >>

\* face records without normal references: position indices a, b, c
C13_Faces ==
    { [ e |-> 0, idx |-> << 1, 2, 3 >>, rec |-> << "f", Tok(1), Tok(2), Tok(3) >> ],
      [ e |-> 0, idx |-> << 1, 3, 2 >>, rec |-> << "f", Tok(1), Tok(3), Tok(2) >> ],
      [ e |-> 0, idx |-> << 2, 1, 1 >>, rec |-> << "f", Tok(2), Tok(1), Tok(1) >> ],
      [ e |-> 1, idx |-> << 2, 3, 1 >>,
        rec |-> << "f", TokUv(2, 1), TokUv(3, 1), TokUv(1, 1) >> ] }

\* (b - a) x (c - a), not normalized, of points held in tenths
C13_EdgeCross(a, b, c) ==
    LET ux == b[1] - a[1]  uy == b[2] - a[2]  uz == b[3] - a[3]
        vx == c[1] - a[1]  vy == c[2] - a[2]  vz == c[3] - a[3]
    IN  << (uy * vz - uz * vy) \div 10, (uz * vx - ux * vz) \div 10,
           (ux * vy - uy * vx) \div 10 >>

\* the last three values of the k-th vertex appended
C13_NormalOf(appended, e, k) ==
    SubSeq(C1_Vertex(appended, e, k), Stride(e, TRUE) - 2, Stride(e, TRUE))

\* every vertex the accepted record f appended carries the normal n
C13_AllCarry(f, out, n) ==
    \E id \in DOMAIN out.meshes :
        /\ ChangedBuckets(meshes, out.meshes) = { id }
        /\ \A k \in 1..3 : C13_NormalOf(AppendedTo(meshes, out.meshes, id), f.e, k) = n

C13_Case(f, out) ==
    /\ (positions = C13_Triangle /\ f.idx = << 1, 2, 3 >>) =>
           out.status = Running /\ C13_AllCarry(f, out, << 0, 0, 10 >>)
    /\ out.status = Running =>
           C13_AllCarry(f, out, C13_EdgeCross(positions[f.idx[1]], positions[f.idx[2]],
                                              positions[f.idx[3]]))

\* C13: with NeedNormals set, a face record without normal references that is
\* accepted appends three vertices that all carry (p2 - p1) x (p3 - p1), not
\* normalized, of the positions it resolves; with positions (0,0,0), (1,0,0),
\* (0,1,0) the face "1 2 3" is accepted and the normal is (0,0,1).
C13_FlatNormal ==
    (Decoding /\ options.NeedNormals) => \A f \in C13_Faces : C13_Case(f, After(f.rec))

\* the face "1 2 3" on (0,0,0), (1,0,0), (0,1,0) was written with normals
C13_Witness ==
    /\ options.NeedNormals /\ positions = C13_Triangle /\ facesCounter = 1
    /\ \E id \in DOMAIN meshes :
          meshes[id].Vertices =
              << 0, 0, 0, 0, 0, 10, 10, 0, 0, 0, 0, 10, 0, 10, 0, 0, 0, 10 >>

-----------------------------------------------------------------------------
(* C14 *)

\* a face record refers to the element after the last of an array; the record
\* def defines that element
C14_Cases ==
    { [ def |-> << "v", T1, T0, T0 >>,
        rec |-> << "f" >> \o [ i \in 1..3 |-> Tok(Len(positions) + 1) ] ] }
    \cup (IF positions = << >> THEN { }
          ELSE { [ def |-> << "vt", T1, T0 >>,
                   rec |-> << "f" >> \o [ i \in 1..3 |-> TokUv(1, Len(uvs) + 1) ] ],
                 [ def |-> << "vn", T0, T0, T1 >>,
                   rec |-> << "f" >> \o [ i \in 1..3 |-> TokN(1, Len(normals) + 1) ] ] })

\* the array new is old, or old with one element after its last
C14_Grown(old, new) ==
    \/ new = old
    \/ Len(new) = Len(old) + 1 /\ SubSeq(new, 1, Len(old)) = old

\* C14: in every state, a face record that refers to the position, uv or
\* normal after the last one defined fails with IndexOutOfRange, and is
\* accepted once the v, vt or vn record defining that element has been read;
\* and every step leaves each of the three arrays as it was or with one more
\* element at the end.
C14_ResolvedWhenRead ==
    /\ [](Decoding =>
            \A c \in C14_Cases :
                /\ After(c.rec).status = IndexOutOfRange
                /\ Handle(After(c.def), c.rec).status = Running)
    /\ [][/\ C14_Grown(positions, positions')
          /\ C14_Grown(normals, normals')
          /\ C14_Grown(uvs, uvs')]_vars

\* a face referring to the second position was accepted right after the
\* record defining it
C14_Witness ==
    /\ lineCounter = 3 /\ facesCounter = 1 /\ Len(positions) = 2
    /\ positions[1] # positions[2]
    /\ ~options.NeedNormals
    /\ \E id \in DOMAIN meshes :
          meshes[id].Vertices = positions[2] \o positions[1] \o positions[1]

-----------------------------------------------------------------------------
(* C15 *)

\* face records with a token whose index text is no integer: "x", "1x",
\* "x/x", "1//x", "1/1x", "1/1/x"
C15_Records ==
    { << "f", TX, Tok(1), Tok(1) >>,
      << "f", << "1", "x" >>, Tok(1), Tok(1) >>,
      << "f", Tok(1), Tok(1), << "1", "x" >> >>,
      << "f", << "x", "/", "x" >>, TokUv(1, 1), TokUv(1, 1) >>,
      << "f", << "1", "/", "/", "x" >>, TokN(1, 1), TokN(1, 1) >>,
      << "f", TokUv(1, 1), << "1", "/", "1", "x" >>, TokUv(1, 1) >>,
      << "f", TokUvN(1, 1, 1), TokUvN(1, 1, 1), << "1", "/", "1", "/", "x" >> >> }

\* C15 (as claimed): a face record with a token whose index text is not a
\* well-formed integer fails, and writes no vertices to any bucket.
C15_MalformedRejected ==
    Decoding =>
        \A rec \in C15_Records :
            After(rec).status \in Failures /\ After(rec).meshes = meshes

-----------------------------------------------------------------------------
(* C16 *)

\* material names: in a library, and in none
C16_Names == { MatA, MatB, Wood, Default }

\* out differs from the state in the line count and the current material only;
\* the current material is name
C16_Selected(out, name) ==
    /\ out.status = Running
    /\ out.currentMaterial = name
    /\ out.meshes = meshes
    /\ out.materials = materials
    /\ C11_ArraysKept(out)

\* the face "1 1 1", if accepted in the state st, goes to the bucket of
\* position-only faces of the material the invocation starts with
C16_ToInitialBucket(st, out) ==
    out.status = Running =>
        ChangedBuckets(st.meshes, out.meshes) = { MeshID(0, InitialMaterial) }

\* C16: a usemtl record with one field makes that field the current material,
\* whether or not the material map has it; a usemtl record without field makes
\* "default" the current material, so that a face after it goes to the bucket
\* faces go to before any usemtl; neither changes a bucket, an array or the
\* material map.
C16_Usemtl ==
    Decoding =>
        /\ \A name \in C16_Names : C16_Selected(After(<< "usemtl", name >>), name)
        /\ C16_Selected(After(<< "usemtl" >>), Default)
        /\ C16_ToInitialBucket(After(<< "usemtl" >>),
                               Handle(After(<< "usemtl" >>), << "f", Tok(1), Tok(1), Tok(1) >>))

\* a face went to a bucket of material "a", which no library has defined, and
\* a usemtl record without field is read next
C16_Witness ==
    /\ status = Running /\ currentMaterial = MatA /\ MatA \notin DOMAIN materials
    /\ \E id \in DOMAIN meshes : meshes[id].MaterialName = MatA
    /\ After(<< "usemtl" >>).currentMaterial = Default

-----------------------------------------------------------------------------
(* C17 *)

\* property records LoadMtl fails on: too few fields, or a field that is no
\* number
C17_Malformed ==
    { << "Ns" >>, << "Ns", TX >>, << "illum", << "1", ".", "5" >> >>,
      << "Kd", T1, T0 >>, << "Kd", TX, T0, T0 >>, << "Ka", T1 >> }

\* a material record of the given name with every field zero
C17_Blank(name) ==
    [ Name |-> name, Ns |-> 0, Ni |-> 0, D |-> 0, Illum |-> 0,
      Ka |-> << 0, 0, 0 >>, Kd |-> << 0, 0, 0 >>, Ks |-> << 0, 0, 0 >>,
      Ke |-> << 0, 0, 0 >>, Ki |-> << 0, 0, 0 >> ]

\* the map new is old but for the entry name, which is blank
C17_Registered(old, new, name) ==
    /\ DOMAIN new = DOMAIN old \cup { name }
    /\ new[name] = C17_Blank(name)
    /\ \A n \in DOMAIN old \ { name } : new[n] = old[n]

\* C17: a newmtl record puts a blank record of its name into the material
\* map at once, over any record of that name; the record being filled is in
\* the map; and when a property record is malformed LoadMtl fails with the
\* map as it was, the entry being filled and the fields set so far included.
C17_RegisteredAtNewmtl ==
    /\ C9_Reading =>
           \A name \in { MatA, Wood } :
               /\ MtlLine(MtlDec, << "newmtl", name >>).status = Running
               /\ MtlLine(MtlDec, << "newmtl", name >>).m = name
               /\ C17_Registered(materials,
                                 MtlLine(MtlDec, << "newmtl", name >>).materials, name)
    /\ m # Nil => m \in DOMAIN materials
    /\ (C9_Reading /\ m # Nil) =>
           \A rec \in C17_Malformed :
               /\ MtlLine(MtlDec, rec).status \in { MalformedRecord, MalformedNumber }
               /\ MtlLine(MtlDec, rec).materials = materials

\* LoadMtl has failed on a property record after Ns was set to 1 in the
\* material being filled
C17_Witness ==
    /\ mtlStatus \in { MalformedRecord, MalformedNumber }
    /\ m # Nil /\ m \in DOMAIN materials
    /\ materials[m].Ns = 10
    /\ Len(mtlLines) = 3

-----------------------------------------------------------------------------
(* C18 *)

\* references of the three tokens of a face record
C18_Refs ==
    { << << 1, 1, 1 >>, << 2, 1, 1 >>, << 1, 1, 1 >> >>,
      << << 1, 1, 1 >>, << 1, 2, 2 >>, << 2, 1, 1 >> >> }

\* the face records: encoding e, the references refs of the tokens
C18_Cases ==
    { [ e |-> e, refs |-> refs,
        rec |-> << "f" >> \o [ k \in 1..3 |-> TokenOf(e, refs[k]) ] ] :
        e \in Encodings, refs \in C18_Refs }

\* the normal of the k-th vertex of case c: the one referred to, or the flat
\* normal of the three positions
C18_Normal(c, k) ==
    IF CarriesNormal(c.e) THEN normals[c.refs[k][3]]
    ELSE C13_EdgeCross(positions[c.refs[1][1]], positions[c.refs[2][1]],
                       positions[c.refs[3][1]])

\* the k-th vertex of case c, with a normal or without
C18_Vertex(c, k, withNormal) ==
    positions[c.refs[k][1]]
        \o (IF CarriesUv(c.e) THEN uvs[c.refs[k][2]] ELSE << >>)
        \o (IF withNormal THEN C18_Normal(c, k) ELSE << >>)

\* the record of case c, if accepted, appended the vertices of its three
\* tokens in order to one bucket
C18_Emitted(c, out, withNormal) ==
    out.status = Running =>
        \E id \in DOMAIN out.meshes :
            /\ ChangedBuckets(meshes, out.meshes) = { id }
            /\ AppendedTo(meshes, out.meshes, id) =
                   C18_Vertex(c, 1, withNormal) \o C18_Vertex(c, 2, withNormal)
                       \o C18_Vertex(c, 3, withNormal)

\* C18 (as claimed): an accepted face record emits three vertices in token
\* order, each a position, then a uv if and only if the encoding carries a uv
\* reference, then a normal if and only if the encoding carries a normal
\* reference or NeedNormals is set.
C18_NormalWhenCarriedOrNeeded ==
    Decoding =>
        \A c \in C18_Cases :
            C18_Emitted(c, After(c.rec), CarriesNormal(c.e) \/ options.NeedNormals)

\* C18 (amended): an accepted face record emits three vertices in token
\* order, each a position, then a uv if and only if the encoding carries a uv
\* reference, then a normal if and only if NeedNormals is set: the normal
\* referred to when the encoding carries one, the flat normal otherwise.
C18_NormalWhenNeeded ==
    Decoding => \A c \in C18_Cases : C18_Emitted(c, After(c.rec), options.NeedNormals)

\* a face with normal references was written without normals, NeedNormals not
\* being set
C18_Witness ==
    /\ ~options.NeedNormals /\ normals # << >>
    /\ \E id \in DOMAIN meshes : meshes[id].Vtype = 3 /\ Len(meshes[id].Vertices) = 9

-----------------------------------------------------------------------------
(* C19 *)

\* floats per vertex of a bucket of the given Vtype
C19_Stride(vtype) ==
    3 + (IF vtype \in { 1, 2 } THEN 2 ELSE 0) + (IF options.NeedNormals THEN 3 ELSE 0)

\* the bucket under id holds whole triangles, at least one, and is the bucket
\* of the pair its identifier is made of
C19_WellFormed(id, mesh) ==
    /\ mesh.Vertices # << >>
    /\ Len(mesh.Vertices) % (3 * C19_Stride(mesh.Vtype)) = 0
    /\ mesh.Vtype \in Encodings
    /\ id = MeshPrefix \o << Digits[mesh.Vtype + 1] >> \o MaterialInfix \o mesh.MaterialName

\* the bucket new is old with vertices appended, or old
C19_Extends(old, new) ==
    /\ new.Vtype = old.Vtype
    /\ new.MaterialName = old.MaterialName
    /\ StartsWith(new.Vertices, old.Vertices)

\* C19: in every state of an invocation started with an empty mesh map, every
\* bucket has a non-empty Vertices whose length is a multiple of 3 * stride,
\* stride being 3, plus 2 if its Vtype is 1 or 2, plus 3 if NeedNormals, and
\* sits under the identifier made of its Vtype and MaterialName; and every
\* step keeps every bucket, with its Vtype and MaterialName, its Vertices as
\* they were or with more appended.
C19_Buckets ==
    /\ [](\A id \in DOMAIN meshes : C19_WellFormed(id, meshes[id]))
    /\ [][\A id \in DOMAIN meshes :
              id \in DOMAIN meshes' /\ C19_Extends(meshes[id], meshes'[id])]_vars

\* two faces were written to one bucket
C19_Witness ==
    /\ facesCounter = 2
    /\ \E id \in DOMAIN meshes :
          Len(meshes[id].Vertices) = 6 * C19_Stride(meshes[id].Vtype)

-----------------------------------------------------------------------------
(* C20 *)

\* face records: of every encoding with all indices 1, and with a third token
\* whose position, uv or normal index is 2; of mixed encodings; too short
C20_Records ==
    { << "f" >> \o C1_Parts(e, 1, << 1, 1, 1 >>) : e \in Encodings }
        \cup { << "f" >> \o C1_Parts(0, 3, << 2, 1, 1 >>),
               << "f" >> \o C1_Parts(1, 3, << 1, 2, 1 >>),
               << "f" >> \o C1_Parts(2, 3, << 1, 1, 2 >>),
               << "f" >> \o C1_Parts(3, 3, << 1, 1, 0 >>),
               << "f", Tok(1), TokUv(1, 1), Tok(1) >>,
               << "f", Tok(1), Tok(1) >> }

\* out has exactly one bucket that differs: it has three whole vertices more
C20_OneBucketAppended(out) ==
    \E id \in DOMAIN out.meshes :
        /\ ChangedBuckets(meshes, out.meshes) = { id }
        /\ id \in DOMAIN meshes => StartsWith(out.meshes[id].Vertices, meshes[id].Vertices)
        /\ Len(AppendedTo(meshes, out.meshes, id)) = 3 * C19_Stride(out.meshes[id].Vtype)

\* the buckets of the state are all in out
C20_NoneRemoved(out) == DOMAIN meshes \subseteq DOMAIN out.meshes

C20_AllOrNothing(out) ==
    /\ C11_ArraysKept(out)
    /\ out.currentMaterial = currentMaterial
    /\ out.materials = materials
    /\ C20_NoneRemoved(out)
    /\ IF out.status = Running THEN C20_OneBucketAppended(out) ELSE out.meshes = meshes

\* C20: a face record leaves the arrays, the current material and the
\* material map unchanged and either is accepted and appends three whole
\* vertices to exactly one bucket, every other bucket unchanged, or fails,
\* in the middle of index resolution included, and changes no bucket.
C20_FaceAllOrNothing ==
    Decoding => \A rec \in C20_Records : C20_AllOrNothing(After(rec))

\* after a face was written, a face record has failed in index resolution
C20_Witness ==
    /\ status = IndexOutOfRange /\ facesCounter = 1
    /\ \E id \in DOMAIN meshes :
          Len(meshes[id].Vertices) = 3 * C19_Stride(meshes[id].Vtype)

=============================================================================
